---- MODULE Spec2Model ----
(***************************************************************************)
(* Request authentication middleware of the Retail backend:                *)
(* src/middleware/authMiddleware.js (authenticateRequest: in-memory rate   *)
(* limiter, session token validation, authorization token validation),     *)
(* the session log (saveSessionRecord) and the public auth token built by  *)
(* the login handler (generatePublicAuthToken).                            *)
(*                                                                         *)
(* Time is in milliseconds.  Strings that the code slices, compares or     *)
(* encodes are sequences of ASCII codes.                                   *)
(***************************************************************************)
EXTENDS Integers, Sequences, FiniteSets, TLC

\* ------------------------------------------------------------------------
\* Program constants
\* ------------------------------------------------------------------------
BLOCK_INCREMENT == 5 * 60 * 1000
REQUEST_LIMIT == 50
TIME_WINDOW == 15 * 1000
SESSION_LIMIT == 30000
prefixLength == 20
suffixLength == 16
\* blockUntil: null (falsy, like 0) in a record that holds no block
Null == 0

\* ------------------------------------------------------------------------
\* Bounds of the model
\* ------------------------------------------------------------------------
\* the clock runs at most MaxIdle ms past the start, or past the end of the
\* block issued last
MaxIdle == 15000
\* the end of a block is awaited while at most MaxBlocks blocks were issued
MaxBlocks == 1
\* requests that may wait for the session-log insert at the same time
MaxInFlight == 1

\* source addresses, and the steps by which the clock advances
IPs == {"ip1"}
Deltas == {TIME_WINDOW \div 2}

\* ------------------------------------------------------------------------
\* Arithmetic helpers
\* ------------------------------------------------------------------------
\* Math.ceil(a / b) for b > 0
Ceil(a, b) == IF a % b = 0 THEN a \div b ELSE (a \div b) + 1

\* Math.floor(a / 2)
Floor2(a) == a \div 2

\* ------------------------------------------------------------------------
\* Strings: sequences of ASCII codes
\* ------------------------------------------------------------------------
\* "websocket", "WebSocket", "WEBSOCKET", "true", "TRUE", "1"
websocket == <<119, 101, 98, 115, 111, 99, 107, 101, 116>>
WebSocketMixed == <<87, 101, 98, 83, 111, 99, 107, 101, 116>>
WebSocketUpper == <<87, 69, 66, 83, 79, 67, 75, 69, 84>>
trueString == <<116, 114, 117, 101>>
TrueUpper == <<84, 82, 85, 69>>
OneString == <<49>>

\* String.prototype.toLowerCase on ASCII
LowerChar(c) == IF c >= 65 /\ c <= 90 THEN c + 32 ELSE c
toLowerCase(s) == [i \in 1..Len(s) |-> LowerChar(s[i])]

\* String.prototype.slice(a, b) for 0 <= a and 0 <= b (0-based, b exclusive)
Slice(s, a, b) ==
  LET e == IF b > Len(s) THEN Len(s) ELSE b
  IN IF a >= e THEN <<>> ELSE SubSeq(s, a + 1, e)

startsWith(s, p) == Len(p) <= Len(s) /\ SubSeq(s, 1, Len(p)) = p
endsWith(s, p) == Len(p) <= Len(s) /\ SubSeq(s, Len(s) - Len(p) + 1, Len(s)) = p

\* ------------------------------------------------------------------------
\* Rate limiter (authenticateRequest, lines 54-86)
\* ------------------------------------------------------------------------
\* mutant: the block includes its end
IsBlockedInclusive(record, currentTime) ==
  record.blockUntil # Null /\ record.blockUntil >= currentTime

\* record.blockUntil && record.blockUntil > currentTime
IsBlocked(record, currentTime) ==
  record.blockUntil # Null /\ record.blockUntil > currentTime

\* mutant: the window includes its end
InWindowInclusive(record, currentTime) ==
  currentTime - record.start <= TIME_WINDOW

\* currentTime - record.start < TIME_WINDOW
InWindow(record, currentTime) == currentTime - record.start < TIME_WINDOW

\* mutant: one request more is let through
OverLimitLax(count) == count > REQUEST_LIMIT + 1

\* record.count > REQUEST_LIMIT
OverLimit(count) == count > REQUEST_LIMIT

\* the record of an address seen for the first time
NewRecord(currentTime) ==
  [count |-> 1, start |-> currentTime, blockUntil |-> Null,
   blockDuration |-> BLOCK_INCREMENT]

\* mutant: the reset keeps the block duration
ResetRecordKeepDuration(record, currentTime) ==
  [record EXCEPT !.count = 1, !.start = currentTime, !.blockUntil = Null]

\* the record after the time window has passed
ResetRecord(record, currentTime) ==
  [record EXCEPT !.count = 1, !.start = currentTime, !.blockUntil = Null,
                 !.blockDuration = BLOCK_INCREMENT]

\* mutant: the duration is doubled before the block is computed
BlockRecordDoubledFirst(record, currentTime) ==
  [record EXCEPT !.blockUntil = currentTime + record.blockDuration * 2,
                 !.blockDuration = record.blockDuration * 2]

\* the record after a violation: block, then double the duration
BlockRecord(record, currentTime) ==
  [record EXCEPT !.blockUntil = currentTime + record.blockDuration,
                 !.blockDuration = record.blockDuration * 2]

\* The rate-limit step on one request.  has: the map holds a record for the
\* address.  Gives the verdict, the record to store (store = FALSE: the map
\* is not written), the seconds reported and the audit rows issued (the
\* call of recordBlockedIp, whose insert has not completed: "issued").
RateLimiter(has, record, ip, route, currentTime) ==
  IF ~has THEN
    [verdict |-> "pass", store |-> TRUE, record |-> NewRecord(currentTime),
     wait |-> 0, audit |-> <<>>]
  ELSE IF IsBlocked(record, currentTime) THEN
    [verdict |-> "blocked", store |-> FALSE, record |-> record,
     wait |-> Ceil(record.blockUntil - currentTime, 1000), audit |-> <<>>]
  ELSE IF InWindow(record, currentTime) THEN
    LET counted == [record EXCEPT !.count = record.count + 1]
    IN IF OverLimit(counted.count) THEN
         LET blocked == BlockRecord(counted, currentTime)
         IN [verdict |-> "limit", store |-> TRUE, record |-> blocked,
             wait |-> Ceil(counted.blockDuration, 1000),
             audit |-> << [ip |-> ip, route |-> route,
                           block_start |-> currentTime,
                           block_end |-> blocked.blockUntil,
                           request_count |-> blocked.count,
                           outcome |-> "issued"] >>]
       ELSE [verdict |-> "pass", store |-> TRUE, record |-> counted,
             wait |-> 0, audit |-> <<>>]
  ELSE
    [verdict |-> "pass", store |-> TRUE,
     record |-> ResetRecord(record, currentTime), wait |-> 0, audit |-> <<>>]

\* mutant: the record of a known address is not written back
MapSetIfAbsent(map, ip, record) ==
  [x \in (DOMAIN map) \cup {ip} |-> IF x \in DOMAIN map THEN map[x] ELSE record]

\* rateLimitMap.set(ip, record)
MapSet(map, ip, record) ==
  [x \in (DOMAIN map) \cup {ip} |-> IF x = ip THEN record ELSE map[x]]

\* ------------------------------------------------------------------------
\* Request history of an address (observation, not program state)
\* ------------------------------------------------------------------------
RECURSIVE Total(_)
Total(h) ==
  IF h = {} THEN 0
  ELSE LET e == CHOOSE x \in h : TRUE IN e[2] + Total(h \ {e})

\* the entries younger than TIME_WINDOW at time t
Recent(h, t) == {e \in h : e[1] > t - TIME_WINDOW}

\* one more request at time t
Noted(h, t) ==
  LET r == Recent(h, t)
  IN IF \E e \in r : e[1] = t
       THEN {IF e[1] = t THEN <<t, e[2] + 1>> ELSE e : e \in r}
       ELSE r \cup {<<t, 1>>}

\* the entries at most TIME_WINDOW old at time t: those of the closed
\* interval [t - TIME_WINDOW, t]
Within(h, t) == {e \in h : e[1] >= t - TIME_WINDOW}

\* one more request passed the rate limiter at time t
NotedPass(h, t) ==
  LET r == Within(h, t)
  IN IF \E e \in r : e[1] = t
       THEN {IF e[1] = t THEN <<t, e[2] + 1>> ELSE e : e \in r}
       ELSE r \cup {<<t, 1>>}

\* ------------------------------------------------------------------------
\* Base64 and the public auth token
\* ------------------------------------------------------------------------
\* the Base64 character of a 6-bit value
B64Char(v) ==
  IF v < 26 THEN 65 + v
  ELSE IF v < 52 THEN 97 + (v - 26)
  ELSE IF v < 62 THEN 48 + (v - 52)
  ELSE IF v = 62 THEN 43 ELSE 47

\* the 6-bit value of a character; 64 for a character outside the alphabet
\* (Buffer accepts the URL-safe '-' and '_' as well)
B64Value(c) ==
  IF c >= 65 /\ c <= 90 THEN c - 65
  ELSE IF c >= 97 /\ c <= 122 THEN c - 97 + 26
  ELSE IF c >= 48 /\ c <= 57 THEN c - 48 + 52
  ELSE IF c = 43 \/ c = 45 THEN 62
  ELSE IF c = 47 \/ c = 95 THEN 63
  ELSE 64

\* '='
PadChar == 61

\* Buffer.from(str).toString('base64') for a string of ASCII characters
RECURSIVE Base64Encode(_)
Base64Encode(b) ==
  IF Len(b) = 0 THEN <<>>
  ELSE IF Len(b) = 1 THEN
    <<B64Char(b[1] \div 4), B64Char((b[1] % 4) * 16), PadChar, PadChar>>
  ELSE IF Len(b) = 2 THEN
    <<B64Char(b[1] \div 4), B64Char((b[1] % 4) * 16 + (b[2] \div 16)),
      B64Char((b[2] % 16) * 4), PadChar>>
  ELSE
    <<B64Char(b[1] \div 4), B64Char((b[1] % 4) * 16 + (b[2] \div 16)),
      B64Char((b[2] % 16) * 4 + (b[3] \div 64)), B64Char(b[3] % 64)>>
    \o Base64Encode(SubSeq(b, 4, Len(b)))

\* the 6-bit values of the characters before the first '=', characters
\* outside the alphabet skipped
RECURSIVE Sextets(_)
Sextets(s) ==
  IF Len(s) = 0 \/ s[1] = PadChar THEN <<>>
  ELSE LET rest == Sextets(SubSeq(s, 2, Len(s)))
       IN IF B64Value(s[1]) < 64 THEN <<B64Value(s[1])>> \o rest ELSE rest

RECURSIVE SextetsToBytes(_)
SextetsToBytes(v) ==
  IF Len(v) < 2 THEN <<>>
  ELSE IF Len(v) = 2 THEN <<v[1] * 4 + (v[2] \div 16)>>
  ELSE IF Len(v) = 3 THEN
    <<v[1] * 4 + (v[2] \div 16), (v[2] % 16) * 16 + (v[3] \div 4)>>
  ELSE
    <<v[1] * 4 + (v[2] \div 16), (v[2] % 16) * 16 + (v[3] \div 4),
      (v[3] % 4) * 64 + v[4]>>
    \o SextetsToBytes(SubSeq(v, 5, Len(v)))

\* toString('utf-8') of bytes: an ASCII byte is its character; a byte that is
\* not ASCII is shown as the replacement character U+FFFD
Utf8Char(b) == IF b < 128 THEN b ELSE 65533

\* Buffer.from(str, 'base64').toString('utf-8'); never throws
Base64Decode(s) ==
  LET bytes == SextetsToBytes(Sextets(s))
  IN [i \in 1..Len(bytes) |-> Utf8Char(bytes[i])]

\* mutant: the secret is split at ceil(length / 2)
generatePublicAuthTokenCeilSplit(userId, secret, prefix, suffix) ==
  LET splitIndex == Len(secret) - Floor2(Len(secret))
      secretFirst == Slice(secret, 0, splitIndex)
      secretSecond == Slice(secret, splitIndex, Len(secret))
      merged == secretFirst \o userId \o secretSecond
      encodedMerged == Base64Encode(merged)
  IN prefix \o encodedMerged \o suffix

\* generatePublicAuthToken (login handler); prefix and suffix are the
\* random hex strings, secret is process.env.USER_TOKEN_SECRET (non-empty)
generatePublicAuthToken(userId, secret, prefix, suffix) ==
  LET splitIndex == Floor2(Len(secret))
      secretFirst == Slice(secret, 0, splitIndex)
      secretSecond == Slice(secret, splitIndex, Len(secret))
      merged == secretFirst \o userId \o secretSecond
      encodedMerged == Base64Encode(merged)
  IN prefix \o encodedMerged \o suffix

\* ------------------------------------------------------------------------
\* Responses
\* ------------------------------------------------------------------------
\* kind names the res.status(...).json(...) statement that answered, or
\* "forward" for next(); user is req.user.id when hasUser; cause is the
\* error logged with a 500 of the sessions insert ("unique": the UNIQUE
\* constraint on session_point, "failed": any other error)
Response(kind, status, ip, wait) ==
  [kind |-> kind, status |-> status, ip |-> ip, wait |-> wait,
   upgrade |-> FALSE, hasUser |-> FALSE, user |-> <<>>,
   hasSession |-> FALSE, cause |-> ""]

\* ------------------------------------------------------------------------
\* Authorization token validation (authenticateRequest, lines 130-168)
\* ------------------------------------------------------------------------
\* mutant: a value of exactly 36 characters passes
TooShortStrict(authHeader) == Len(authHeader) < (prefixLength + suffixLength)

\* authHeader.length <= (prefixLength + suffixLength)
TooShort(authHeader) == Len(authHeader) <= (prefixLength + suffixLength)

\* merged.startsWith(secretFirst) && merged.endsWith(secretSecond)
StructureOk(merged, secretFirst, secretSecond) ==
  startsWith(merged, secretFirst) /\ endsWith(merged, secretSecond)

\* mutant: the login header is compared without regard to letter case
LoginRequestedAnyCase(loginStatus) == toLowerCase(loginStatus) = trueString

\* loginStatus === "true"
LoginRequested(loginStatus) == loginStatus = trueString

\* mutant: a missing secret is not noticed
SecretMissingIgnored(secret) == FALSE

\* !secret
SecretMissing(secret) == secret = <<>>

\* mutant: the secret is read before the length of the token is tested
AuthorizationValidationSecretFirst(authHeader, loginStatus, secret, ip) ==
  IF authHeader = <<>> THEN Response("missing_auth", 401, ip, 0)
  ELSE IF LoginRequested(loginStatus) THEN
    IF SecretMissing(secret) THEN Response("secret_missing", 500, ip, 0)
    ELSE IF TooShort(authHeader) THEN Response("bad_length", 401, ip, 0)
    ELSE
      LET encodedMerged ==
            Slice(authHeader, prefixLength, Len(authHeader) - suffixLength)
          merged == Base64Decode(encodedMerged)
          splitIndex == Floor2(Len(secret))
          secretFirst == Slice(secret, 0, splitIndex)
          secretSecond == Slice(secret, splitIndex, Len(secret))
      IN IF ~StructureOk(merged, secretFirst, secretSecond)
           THEN Response("bad_structure", 403, ip, 0)
           ELSE [Response("forward", 200, ip, 0) EXCEPT
                   !.hasUser = TRUE,
                   !.user = Slice(merged, Len(secretFirst),
                                  Len(merged) - Len(secretSecond))]
  ELSE Response("forward", 200, ip, 0)

\* authHeader, loginStatus: header values, <<>> when absent or empty;
\* secret: process.env.USER_TOKEN_SECRET, <<>> when not set
AuthorizationValidation(authHeader, loginStatus, secret, ip) ==
  IF authHeader = <<>> THEN Response("missing_auth", 401, ip, 0)
  ELSE IF LoginRequested(loginStatus) THEN
    IF TooShort(authHeader) THEN Response("bad_length", 401, ip, 0)
    ELSE
      LET encodedMerged ==
            Slice(authHeader, prefixLength, Len(authHeader) - suffixLength)
          merged == Base64Decode(encodedMerged)
      IN IF SecretMissing(secret) THEN Response("secret_missing", 500, ip, 0)
         ELSE
           LET splitIndex == Floor2(Len(secret))
               secretFirst == Slice(secret, 0, splitIndex)
               secretSecond == Slice(secret, splitIndex, Len(secret))
           IN IF ~StructureOk(merged, secretFirst, secretSecond)
                THEN Response("bad_structure", 403, ip, 0)
                ELSE [Response("forward", 200, ip, 0) EXCEPT
                        !.hasUser = TRUE,
                        !.user = Slice(merged, Len(secretFirst),
                                       Len(merged) - Len(secretSecond))]
  ELSE Response("forward", 200, ip, 0)

\* ------------------------------------------------------------------------
\* Session token validation (authenticateRequest, lines 89-108)
\* ------------------------------------------------------------------------
\* The ts header is given by what Buffer.from(ts, 'base64') and JSON.parse
\* make of it: kind "absent" (no header, or empty), "malformed" (JSON.parse
\* throws), "null" (the JSON text null), "value" (a JSON number, string,
\* boolean or array: reading a field of it gives undefined) or "object"; a
\* field the value lacks has has = FALSE.
Truthy(field) == field.has /\ field.v # 0
TruthyString(str) == str # ""

\* !generatedAt || !sessionId || !sessionPoint
MissingDetails(sessionData) ==
  \/ ~Truthy(sessionData.generatedAt)
  \/ ~TruthyString(sessionData.sessionId)
  \/ ~TruthyString(sessionData.sessionPoint)

\* mutant: a token of exactly 30000 ms is expired
ExpiredInclusive(sessionData, currentTime) ==
  currentTime - sessionData.generatedAt.v >= SESSION_LIMIT

\* currentTime - sessionData.generatedAt > 30000
Expired(sessionData, currentTime) ==
  currentTime - sessionData.generatedAt.v > SESSION_LIMIT

\* mutant: freshness is checked before completeness
SessionValidationFreshnessFirst(ts, currentTime) ==
  IF ts.kind = "absent" THEN "missing_ts"
  ELSE IF ts.kind = "malformed" THEN "bad_format"
  ELSE IF ts.kind = "null" THEN "thrown"
  ELSE IF ts.generatedAt.has /\ Expired(ts, currentTime) THEN "expired"
  ELSE IF MissingDetails(ts) THEN "missing_details"
  ELSE "ok"

\* "thrown": reading sessionData.generatedAt of null (line 102, outside
\* every try) throws a TypeError, and the async function ends rejected
SessionValidation(ts, currentTime) ==
  IF ts.kind = "absent" THEN "missing_ts"
  ELSE IF ts.kind = "malformed" THEN "bad_format"
  ELSE IF ts.kind = "null" THEN "thrown"
  ELSE IF MissingDetails(ts) THEN "missing_details"
  ELSE IF Expired(ts, currentTime) THEN "expired"
  ELSE "ok"

\* mutant: the upgrade header is compared without toLowerCase
isSocketRequestCaseSensitive(req) ==
  req.upgrade # <<>> /\ req.upgrade = websocket

\* req.headers.upgrade && req.headers.upgrade.toLowerCase() === 'websocket'
isSocketRequest(req) ==
  req.upgrade # <<>> /\ toLowerCase(req.upgrade) = websocket

VARIABLES
  now,           \* Date.now()
  rateLimitMap,  \* the Map: source address -> record
  auditWrites,   \* blocked_ips inserts issued by recordBlockedIp, in order
  sessions,      \* rows of the sessions table, in insert order
  pending,       \* handlers suspended at await saveSessionRecord(...)
  secret,        \* process.env.USER_TOKEN_SECRET, <<>> when not set
  issued,        \* the public auth token the login handler issued last
  req,           \* the request whose handler ran last
  last,          \* what that handler did: its response, or "pending"
  hist,          \* per address: <<time, requests>> of the last TIME_WINDOW ms
  over,          \* per address: a rolling TIME_WINDOW interval held more
                 \* than REQUEST_LIMIT non-upgrade requests
  got429,        \* per address: a request of it was answered 429
  passed,        \* per address: <<time, requests>> that passed the rate
                 \* limiter at most TIME_WINDOW ms ago
  track,         \* hist and over are kept (fixed when the run starts)
  maxPending     \* the handlers that may be suspended at the sessions
                 \* insert at once (fixed when the run starts)

\* the login handler, for one registered and verified user and one source
\* address
VARIABLES
  failedLoginAttempts,  \* the failed_login_attempts row of the pair
  loginCorrect,         \* the last login carried the right password
  loginResponse,        \* the status of the response to the last login
  streak,               \* logins answered 401 since the last one answered 200
  streakAt              \* the time of the last login answered 401

loginVars ==
  <<failedLoginAttempts, loginCorrect, loginResponse, streak, streakAt>>

\* the resend-OTP handler, for one e-mail address and one purpose
VARIABLES
  otpRequests,  \* otpRequests[sanitizedEmail]
  otps,         \* the number of rows of the otps table
  resend,       \* per handler: where it stands, and its response status
  served        \* the times of the responses 200, in order

otpVars == <<otpRequests, otps, resend, served>>

\* the handler of POST /place/order and the tables it writes
VARIABLES
  stock_quantity,  \* products.stock_quantity, per product
  orders,          \* the handlers whose orders row is stored
  orderitems,      \* the handlers whose orderitems rows are stored
  cart,            \* the handlers whose cart rows are stored
  place            \* per handler: where it and the stock update of each of
                   \* its items stand, and its response status

\* the state outside the middleware
orderVars == <<stock_quantity, orders, orderitems, cart, place>>
storeVars == <<loginVars, otpVars, orderVars>>

vars == <<now, rateLimitMap, auditWrites, sessions, pending, secret, issued,
          req, last, hist, over, got429, passed, track, maxPending,
          storeVars>>

\* the state of the middleware, but for the clock
middlewareVars ==
  <<rateLimitMap, auditWrites, sessions, pending, secret, issued, req, last,
    hist, over, got429, passed, track,
                 maxPending>>

\* ------------------------------------------------------------------------
\* Requests
\* ------------------------------------------------------------------------
NoField == [has |-> FALSE, v |-> 0]
Num(n) == [has |-> TRUE, v |-> n]

NoTs == [kind |-> "absent", generatedAt |-> NoField, sessionId |-> "",
         sessionPoint |-> ""]
MalformedTs == [NoTs EXCEPT !.kind = "malformed"]
NullTs == [NoTs EXCEPT !.kind = "null"]
ValueTs == [NoTs EXCEPT !.kind = "value"]
ObjectTs(generatedAt, sessionId, sessionPoint) ==
  [kind |-> "object", generatedAt |-> generatedAt, sessionId |-> sessionId,
   sessionPoint |-> sessionPoint]

Request(ip, upgrade, ts, authorization, login) ==
  [ip |-> ip, route |-> "/", upgrade |-> upgrade, ts |-> ts,
   authorization |-> authorization, login |-> login]

NoRequest == Request("", <<>>, NoTs, <<>>, <<>>)
NoRecord == [count |-> 0, start |-> 0, blockUntil |-> Null, blockDuration |-> 0]
NoToken == [userId |-> <<>>, secret |-> <<>>, token |-> <<>>]
EmptyMap == [x \in {} |-> NoRecord]

\* ------------------------------------------------------------------------
\* Actions
\* ------------------------------------------------------------------------
\* the clock advances by d, but not past the end of a block
Horizon ==
  IF auditWrites = <<>> THEN MaxIdle
  ELSE auditWrites[Len(auditWrites)].block_end + MaxIdle

Tick(d) ==
  /\ now + d <= Horizon
  /\ \A ip \in DOMAIN rateLimitMap :
       IsBlocked(rateLimitMap[ip], now) => IsBlocked(rateLimitMap[ip], now + d)
  /\ now' = now + d
  /\ hist' = [ip \in IPs |-> Recent(hist[ip], now + d)]
  /\ passed' = [ip \in IPs |-> Within(passed[ip], now + d)]
  /\ UNCHANGED storeVars
  /\ UNCHANGED <<rateLimitMap, auditWrites, sessions, pending, secret, issued,
                 req, last, over, got429, track,
                 maxPending>>

\* the clock advances to the end of the block of an address
AwaitExpiry(ip) ==
  /\ ip \in DOMAIN rateLimitMap
  /\ IsBlocked(rateLimitMap[ip], now)
  /\ Len(auditWrites) <= MaxBlocks
  /\ now' = rateLimitMap[ip].blockUntil
  /\ hist' = [a \in IPs |-> Recent(hist[a], rateLimitMap[ip].blockUntil)]
  /\ passed' = [a \in IPs |->
                  Within(passed[a], rateLimitMap[ip].blockUntil)]
  /\ UNCHANGED storeVars
  /\ UNCHANGED <<rateLimitMap, auditWrites, sessions, pending, secret, issued,
                 req, last, over, got429, track,
                 maxPending>>

\* the row saveSessionRecord inserts
SessionRow(sessionData) ==
  [session_id |-> sessionData.sessionId,
   session_point |-> sessionData.sessionPoint,
   generated_at |-> sessionData.generatedAt.v,
   last_access |-> sessionData.generatedAt.v]

\* mutant: the record is written only for a request whose session token
\* is accepted
RecordWrittenIfValid(rl, sv) == rl.store /\ sv = "ok"

\* rateLimitMap.set of lines 74 and 85 has run when the session token
\* is looked at (sv: what its validation will say)
RecordWritten(rl, sv) == rl.store

\* authenticateRequest from its start to its first suspension: the upgrade
\* bypass, the rate limiter, the session token validation and the call of
\* saveSessionRecord
Receive(r) ==
  /\ req' = r
  /\ UNCHANGED storeVars
  /\ UNCHANGED <<now, sessions, secret, issued, track,
                 maxPending>>
  /\ IF isSocketRequest(r) THEN
       /\ last' = [Response("forward", 200, r.ip, 0) EXCEPT !.upgrade = TRUE]
       /\ UNCHANGED <<rateLimitMap, auditWrites, pending, hist, over, got429,
                      passed>>
     ELSE
       LET currentTime == now
           has == r.ip \in DOMAIN rateLimitMap
           record == IF has THEN rateLimitMap[r.ip] ELSE NoRecord
           rl == RateLimiter(has, record, r.ip, r.route, currentTime)
           noted == IF track THEN Noted(hist[r.ip], currentTime) ELSE {}
           isOver == over[r.ip] \/ Total(noted) > REQUEST_LIMIT
           sv == SessionValidation(r.ts, currentTime)
       IN /\ rateLimitMap' = IF RecordWritten(rl, sv)
                               THEN MapSet(rateLimitMap, r.ip, rl.record)
                               ELSE rateLimitMap
          /\ auditWrites' = auditWrites \o rl.audit
          /\ over' = [over EXCEPT ![r.ip] = isOver]
          /\ hist' = [hist EXCEPT ![r.ip] = IF isOver THEN {} ELSE noted]
          /\ got429' = [got429 EXCEPT ![r.ip] = @ \/ rl.verdict # "pass"]
          /\ passed' = [passed EXCEPT ![r.ip] =
                          IF ~track THEN {}
                          ELSE IF rl.verdict = "pass"
                            THEN NotedPass(@, currentTime)
                          ELSE Within(@, currentTime)]
          /\ IF rl.verdict = "blocked" THEN
               /\ last' = Response("blocked", 429, r.ip, rl.wait)
               /\ UNCHANGED pending
             ELSE IF rl.verdict = "limit" THEN
               /\ last' = Response("limit", 429, r.ip, rl.wait)
               /\ UNCHANGED pending
             ELSE IF sv = "missing_ts" THEN
               /\ last' = Response(sv, 401, r.ip, 0)
               /\ UNCHANGED pending
             ELSE IF sv = "bad_format" THEN
               /\ last' = Response(sv, 400, r.ip, 0)
               /\ UNCHANGED pending
             ELSE IF sv = "thrown" THEN
               /\ last' = Response(sv, 0, r.ip, 0)
               /\ UNCHANGED pending
             ELSE IF sv = "missing_details" THEN
               /\ last' = Response(sv, 400, r.ip, 0)
               /\ UNCHANGED pending
             ELSE IF sv = "expired" THEN
               /\ last' = Response(sv, 403, r.ip, 0)
               /\ UNCHANGED pending
             ELSE
               /\ Len(pending) < maxPending
               /\ last' = [Response("pending", 0, r.ip, 0) EXCEPT
                             !.hasSession = TRUE]
               /\ pending' = Append(pending, r)

\* mutant: session_point is not UNIQUE
UniqueViolationNever(rows, row) == FALSE

\* the insert of row violates the UNIQUE constraint on session_point
UniqueViolation(rows, row) ==
  \E k \in 1..Len(rows) : rows[k].session_point = row.session_point

\* mutant: a failed sessions insert is logged and the handler goes on, as
\* recordBlockedIp does
SaveSessionDoneBestEffort(i, failed) ==
  LET p == pending[i]
      row == SessionRow(p.ts)
      duplicate == UniqueViolation(sessions, row)
      error == failed \/ duplicate
  IN /\ pending' = [k \in 1..(Len(pending) - 1) |->
                      IF k < i THEN pending[k] ELSE pending[k + 1]]
     /\ req' = p
     /\ sessions' = IF error THEN sessions ELSE Append(sessions, row)
     /\ last' = [AuthorizationValidation(p.authorization, p.login,
                                         secret, p.ip)
                   EXCEPT !.hasSession = TRUE]
     /\ UNCHANGED storeVars
     /\ UNCHANGED <<now, rateLimitMap, auditWrites, secret, issued, hist,
                    over, got429, passed, track,
                 maxPending>>

\* mutant: the row is kept only when the authorization stage accepts the
\* request
SaveSessionDoneRowOnForward(i, failed) ==
  LET p == pending[i]
      row == SessionRow(p.ts)
      duplicate == UniqueViolation(sessions, row)
      error == failed \/ duplicate
      answer == AuthorizationValidation(p.authorization, p.login, secret,
                                        p.ip)
  IN /\ pending' = [k \in 1..(Len(pending) - 1) |->
                      IF k < i THEN pending[k] ELSE pending[k + 1]]
     /\ req' = p
     /\ sessions' = IF error \/ answer.kind # "forward" THEN sessions
                    ELSE Append(sessions, row)
     /\ last' = IF error
                  THEN [Response("store_failed", 500, p.ip, 0) EXCEPT
                          !.cause = IF failed THEN "failed" ELSE "unique"]
                ELSE [answer EXCEPT !.hasSession = TRUE]
     /\ UNCHANGED storeVars
     /\ UNCHANGED <<now, rateLimitMap, auditWrites, secret, issued, hist,
                    over, got429, passed, track, maxPending>>

\* the sessions insert of a suspended handler completes (failed: the
\* database reported an error) and the handler runs to its end
SaveSessionDone(i, failed) ==
  LET p == pending[i]
      row == SessionRow(p.ts)
      duplicate == UniqueViolation(sessions, row)
      error == failed \/ duplicate
  IN /\ pending' = [k \in 1..(Len(pending) - 1) |->
                      IF k < i THEN pending[k] ELSE pending[k + 1]]
     /\ req' = p
     /\ sessions' = IF error THEN sessions ELSE Append(sessions, row)
     /\ last' = IF error
                  THEN [Response("store_failed", 500, p.ip, 0) EXCEPT
                          !.cause = IF failed THEN "failed" ELSE "unique"]
                ELSE [AuthorizationValidation(p.authorization, p.login,
                                              secret, p.ip)
                        EXCEPT !.hasSession = TRUE]
     /\ UNCHANGED storeVars
     /\ UNCHANGED <<now, rateLimitMap, auditWrites, secret, issued, hist,
                    over, got429, passed, track,
                 maxPending>>

\* the blocked_ips insert of the k-th call of recordBlockedIp completes:
\* the row is stored, the database reports an error, or the insert throws;
\* the last two are logged (lines 36-41) and nothing else happens
AuditOutcomes == {"stored", "error", "thrown"}

\* mutant: the handler waits for the insert and answers 500 when it fails
recordBlockedIpDoneAwaited(k, outcome) ==
  /\ auditWrites[k].outcome = "issued"
  /\ auditWrites' = [auditWrites EXCEPT ![k].outcome = outcome]
  /\ last' = IF outcome = "stored" THEN last
             ELSE Response("store_failed", 500, auditWrites[k].ip, 0)
  /\ UNCHANGED storeVars
  /\ UNCHANGED <<now, rateLimitMap, sessions, pending, secret, issued, req,
                 hist, over, got429, passed, track,
                 maxPending>>

recordBlockedIpDone(k, outcome) ==
  /\ auditWrites[k].outcome = "issued"
  /\ auditWrites' = [auditWrites EXCEPT ![k].outcome = outcome]
  /\ UNCHANGED storeVars
  /\ UNCHANGED <<now, rateLimitMap, sessions, pending, secret, issued, req,
                 last, hist, over, got429, passed, track,
                 maxPending>>

\* the login handler issues a public auth token for userId under the secret s
IssueToken(userId, s, prefix, suffix) ==
  /\ s # <<>>
  /\ issued' = [userId |-> userId, secret |-> s,
                token |-> generatePublicAuthToken(userId, s, prefix, suffix)]
  /\ UNCHANGED storeVars
  /\ UNCHANGED <<now, rateLimitMap, auditWrites, sessions, pending, secret,
                 req, last, hist, over, got429, passed, track,
                 maxPending>>

\* the authorization token validation applied to one header value
Decode(ip, authHeader, loginStatus) ==
  /\ req' = Request(ip, <<>>, NoTs, authHeader, loginStatus)
  /\ last' = AuthorizationValidation(authHeader, loginStatus, secret, ip)
  /\ UNCHANGED storeVars
  /\ UNCHANGED <<now, rateLimitMap, auditWrites, sessions, pending, secret,
                 issued, hist, over, got429, passed, track,
                 maxPending>>

\* ------------------------------------------------------------------------
\* Login lockout (login and handleFailedLogin, part_002)
\* ------------------------------------------------------------------------
\* failed attempts that lock the pair, and the length of the lock in ms
LockThreshold == 5
LockDuration == 30 * 60 * 1000

NoAttempts == [has |-> FALSE, failed_attempts |-> 0, locked_until |-> Null]

\* mutant: the pair is locked only after more than 5 failed attempts
LoginLockedStrict(attemptRecord, t) ==
  /\ attemptRecord.has
  /\ attemptRecord.failed_attempts > LockThreshold
  /\ t < attemptRecord.locked_until

\* attemptRecord && attemptRecord.failed_attempts >= 5 &&
\* new Date() < new Date(attemptRecord.locked_until)
LoginLocked(attemptRecord, t) ==
  /\ attemptRecord.has
  /\ attemptRecord.failed_attempts >= LockThreshold
  /\ t < attemptRecord.locked_until

\* the row handleFailedLogin leaves: an update of the row read, or the
\* insert of a first row
handleFailedLogin(attemptRecord, t) ==
  LET newFailedAttempts ==
        IF attemptRecord.has THEN attemptRecord.failed_attempts + 1 ELSE 1
      lockUntil ==
        IF newFailedAttempts >= LockThreshold THEN t + LockDuration ELSE Null
  IN IF attemptRecord.has
       THEN [has |-> TRUE, failed_attempts |-> newFailedAttempts,
             locked_until |-> lockUntil]
       ELSE [has |-> TRUE, failed_attempts |-> 1, locked_until |-> Null]

\* one login of the user from the address, handled to its end before the
\* next one starts
Login(isPasswordCorrect) ==
  LET attemptRecord == failedLoginAttempts
  IN /\ loginCorrect' = isPasswordCorrect
     /\ IF LoginLocked(attemptRecord, now) THEN
          /\ loginResponse' = 403
          /\ UNCHANGED <<failedLoginAttempts, streak, streakAt>>
        ELSE IF ~isPasswordCorrect THEN
          /\ failedLoginAttempts' = handleFailedLogin(attemptRecord, now)
          /\ loginResponse' = 401
          /\ streak' = streak + 1
          /\ streakAt' = now
        ELSE
          /\ failedLoginAttempts' = NoAttempts
          /\ loginResponse' = 200
          /\ streak' = 0
          /\ UNCHANGED streakAt
     /\ UNCHANGED <<now, middlewareVars, otpVars, orderVars>>

\* the clock of the login runs advances by half the length of a lock
MaxLoginSteps == 6
LoginStep == LockDuration \div 2

LoginTick ==
  /\ now + LoginStep <= MaxLoginSteps * LoginStep
  /\ now' = now + LoginStep
  /\ UNCHANGED <<middlewareVars, storeVars>>

InitLogin ==
  /\ failedLoginAttempts = NoAttempts
  /\ loginCorrect = FALSE
  /\ loginResponse = 0
  /\ streak = 0
  /\ streakAt = 0

\* ------------------------------------------------------------------------
\* OTP resend limit (resendOTP, part_002 lines 614-682)
\* ------------------------------------------------------------------------
\* resend requests served per address, and the length of the interval in ms
ResendLimit == 3
ResendWindow == 60 * 60 * 1000

\* the resend requests of a run
MaxResend == 4
ResendHandlers == 1..MaxResend

NoOtpRequests == [has |-> FALSE, count |-> 0, lastRequest |-> 0]
IdleHandler == [pc |-> "idle", status |-> 0]

\* otpRequests[email].count >= 3 &&
\* Date.now() - otpRequests[email].lastRequest < 60 * 60 * 1000
ResendLimited(record, t) ==
  /\ record.count >= ResendLimit
  /\ t - record.lastRequest < ResendWindow

\* resendOTP from its start to its first suspension after the rate limit:
\* the record is created, or the request is answered 429, or the handler
\* goes on to the delete of the old OTPs
ResendStart(i) ==
  /\ resend[i].pc = "idle"
  /\ i > 1 => resend[i - 1].pc # "idle"
  /\ IF ~otpRequests.has THEN
       /\ otpRequests' = [has |-> TRUE, count |-> 0, lastRequest |-> now]
       /\ resend' = [resend EXCEPT ![i].pc = "delete"]
     ELSE IF ResendLimited(otpRequests, now) THEN
       /\ resend' = [resend EXCEPT ![i] = [pc |-> "done", status |-> 429]]
       /\ UNCHANGED otpRequests
     ELSE
       /\ resend' = [resend EXCEPT ![i].pc = "delete"]
       /\ UNCHANGED otpRequests
  /\ UNCHANGED <<now, middlewareVars, loginVars, orderVars, otps, served>>

\* the delete of the old OTPs completes
ResendDeleted(i) ==
  /\ resend[i].pc = "delete"
  /\ otps' = 0
  /\ resend' = [resend EXCEPT ![i].pc = "send"]
  /\ UNCHANGED <<now, middlewareVars, loginVars, orderVars, otpRequests,
                 served>>

\* sendOTPEmail completes; when it throws the handler answers 500
ResendSent(i, failed) ==
  /\ resend[i].pc = "send"
  /\ resend' = [resend EXCEPT ![i] =
                  IF failed THEN [pc |-> "done", status |-> 500]
                  ELSE [pc |-> "insert", status |-> 0]]
  /\ UNCHANGED <<now, middlewareVars, loginVars, orderVars, otpRequests, otps,
                 served>>

\* the insert of the new OTP completes: the handler answers 500 on an
\* error, and else counts the request and answers 200
ResendInserted(i, failed) ==
  /\ resend[i].pc = "insert"
  /\ IF failed THEN
       /\ resend' = [resend EXCEPT ![i] = [pc |-> "done", status |-> 500]]
       /\ UNCHANGED <<otpRequests, otps, served>>
     ELSE
       /\ otps' = otps + 1
       /\ otpRequests' = [otpRequests EXCEPT !.count = @ + 1,
                                              !.lastRequest = now]
       /\ resend' = [resend EXCEPT ![i] = [pc |-> "done", status |-> 200]]
       /\ served' = Append(served, now)
  /\ UNCHANGED <<now, middlewareVars, loginVars, orderVars>>

\* the clock of the resend runs advances by half an hour
MaxResendSteps == 2
ResendStep == ResendWindow \div 2

ResendTick ==
  /\ now + ResendStep <= MaxResendSteps * ResendStep
  /\ now' = now + ResendStep
  /\ UNCHANGED <<middlewareVars, storeVars>>

InitResend ==
  /\ otpRequests = NoOtpRequests
  /\ otps = 0
  /\ resend = [i \in ResendHandlers |-> IdleHandler]
  /\ served = <<>>

\* ------------------------------------------------------------------------
\* Order placement (cart.js, POST /place/order)
\* ------------------------------------------------------------------------
Products == {"a", "b"}
\* stock_quantity of every product when the runs start
InitialStock == 2
\* handlers of POST /place/order that may run at the same time
MaxPlace == 2
PlaceHandlers == 1..MaxPlace

Item(p, q) == [product_id |-> p, quantity |-> q]

\* the cart rows of a request: one item, one product in two items, and two
\* products of which the second is ordered in a quantity above its stock
Carts ==
  {<<Item("a", 1)>>,
   <<Item("a", 1), Item("a", 1)>>,
   <<Item("a", 1), Item("b", InitialStock + 1)>>}

\* the items of the longest cart
MaxItems == 2

IdlePlace ==
  [pc |-> "idle", items |-> <<>>, ipc |-> <<>>, newStock |-> <<>>,
   status |-> 0]

\* a request arrives with valid input and its cart rows are fetched
\* (lines 401-447); the handlers start in the order of their numbers
PlaceStart(h, cartItems) ==
  /\ place[h].pc = "idle"
  /\ IF h = 1 THEN TRUE ELSE place[h - 1].pc # "idle"
  /\ h \in cart
  /\ place' = [place EXCEPT ![h] = [IdlePlace EXCEPT !.pc = "order",
                                                      !.items = cartItems]]
  /\ UNCHANGED <<now, middlewareVars, loginVars, otpVars, stock_quantity,
                 orders, orderitems, cart>>

\* the insert into orders completes (lines 496-514)
PlaceOrderCreated(h) ==
  /\ place[h].pc = "order"
  /\ orders' = orders \cup {h}
  /\ place' = [place EXCEPT ![h].pc = "items"]
  /\ UNCHANGED <<now, middlewareVars, loginVars, otpVars, stock_quantity,
                 orderitems, cart>>

\* the insert into orderitems completes, and the stock update of every
\* item starts by issuing its select (lines 540-583)
PlaceItemsInserted(h) ==
  /\ place[h].pc = "items"
  /\ orderitems' = orderitems \cup {h}
  /\ place' = [place EXCEPT
                 ![h].pc = "stock",
                 ![h].ipc = [k \in 1..Len(place[h].items) |-> "fetch"],
                 ![h].newStock = [k \in 1..Len(place[h].items) |-> 0]]
  /\ UNCHANGED <<now, middlewareVars, loginVars, otpVars, stock_quantity,
                 orders, cart>>

\* the select of stock_quantity for item k completes (lines 578-589): the
\* item throws when the stock is too low, which rejects Promise.all and
\* takes the handler to its catch block (500), and else issues its update
StockFetched(h, k) ==
  LET item == place[h].items[k]
      newStock == stock_quantity[item.product_id] - item.quantity
  IN /\ k <= Len(place[h].ipc)
     /\ place[h].ipc[k] = "fetch"
     /\ place' = IF newStock < 0
                   THEN [place EXCEPT
                           ![h].ipc[k] = "thrown",
                           ![h].pc = IF @ = "stock" THEN "done" ELSE @,
                           ![h].status = IF place[h].pc = "stock"
                                           THEN 500 ELSE @]
                 ELSE [place EXCEPT ![h].ipc[k] = "update",
                                    ![h].newStock[k] = newStock]
     /\ UNCHANGED <<now, middlewareVars, loginVars, otpVars, stock_quantity,
                    orders, orderitems, cart>>

\* the update of item k completes (lines 590-597); when it was the last
\* one and no item has thrown, Promise.all resolves and the delete of the
\* cart rows is issued
StockUpdated(h, k) ==
  LET item == place[h].items[k]
      ipc == [place[h].ipc EXCEPT ![k] = "done"]
  IN /\ k <= Len(place[h].ipc)
     /\ place[h].ipc[k] = "update"
     /\ stock_quantity' = [stock_quantity EXCEPT ![item.product_id] =
                                                  place[h].newStock[k]]
     /\ place' = [place EXCEPT
                    ![h].ipc = ipc,
                    ![h].pc = IF @ = "stock" /\
                                 \A j \in 1..Len(ipc) : ipc[j] = "done"
                                THEN "clear" ELSE @]
     /\ UNCHANGED <<now, middlewareVars, loginVars, otpVars, orders,
                    orderitems, cart>>

\* the delete of the cart rows completes (lines 601-610)
PlaceCartCleared(h) ==
  /\ place[h].pc = "clear"
  /\ cart' = cart \ {h}
  /\ place' = [place EXCEPT ![h].pc = "notify"]
  /\ UNCHANGED <<now, middlewareVars, loginVars, otpVars, stock_quantity,
                 orders, orderitems>>

\* the message is stored and linked, the e-mail is sent and the handler
\* answers 201 (lines 613-661)
PlaceNotified(h) ==
  /\ place[h].pc = "notify"
  /\ place' = [place EXCEPT ![h].pc = "done", ![h].status = 201]
  /\ UNCHANGED <<now, middlewareVars, loginVars, otpVars, stock_quantity,
                 orders, orderitems, cart>>

InitOrder ==
  /\ stock_quantity = [p \in Products |-> InitialStock]
  /\ orders = {}
  /\ orderitems = {}
  /\ cart = PlaceHandlers
  /\ place = [h \in PlaceHandlers |-> IdlePlace]

\* ------------------------------------------------------------------------
\* Inputs
\* ------------------------------------------------------------------------
\* strings over {"a", "b"} of length 0..n
RECURSIVE Strings(_)
Strings(n) ==
  IF n = 0 THEN {<<>>}
  ELSE LET shorter == Strings(n - 1)
       IN shorter \cup {Append(t, c) : t \in shorter, c \in {97, 98}}

MaxSecretLen == 3
MaxIdLen == 2
Secrets == Strings(MaxSecretLen)
UserIds == Strings(MaxIdLen) \ {<<>>}

\* 20 and 16 hex characters
Prefixes == {[i \in 1..prefixLength |-> 48], [i \in 1..prefixLength |-> 102]}
Suffixes == {[i \in 1..suffixLength |-> 49], [i \in 1..suffixLength |-> 101]}

\* "ab"
SecretAB == <<97, 98>>

\* an authorization value that is no token: "ab"
OpaqueAuth == <<97, 98>>

\* requests of the rate limiter runs: with nothing but the address and an
\* upgrade header, and one with a session token and an authorization value
Requests ==
  {Request(ip, up, NoTs, <<>>, <<>>) :
     ip \in IPs, up \in {<<>>, websocket, WebSocketMixed, WebSocketUpper}}
  \cup {Request(ip, <<>>, ObjectTs(Num(1), "s1", "p1"), OpaqueAuth, <<>>) :
          ip \in IPs}

\* requests of the runs that keep the request history: nothing but the
\* address and an upgrade header
RateRequests ==
  {Request(ip, up, NoTs, <<>>, <<>>) : ip \in IPs, up \in {<<>>, WebSocketMixed}}

\* the clock when the runs on session tokens start
StartTime == 100000
\* an address sends at most MaxBurst requests in the runs on session tokens
MaxBurst == 2

\* now - generatedAt of the session tokens sent
Ages == {SESSION_LIMIT + 1, SESSION_LIMIT, SESSION_LIMIT - 1,
         0 - (SESSION_LIMIT + 1)}

\* a token for user "a" under the secret "ab", and its first 36 characters
TokenA ==
  generatePublicAuthToken(<<97>>, SecretAB, [i \in 1..prefixLength |-> 48],
                          [i \in 1..suffixLength |-> 49])
ShortToken == Slice(TokenA, 0, prefixLength + suffixLength)
\* a token for user "a" under the secret "ba"
TokenB ==
  generatePublicAuthToken(<<97>>, <<98, 97>>, [i \in 1..prefixLength |-> 48],
                          [i \in 1..suffixLength |-> 49])

\* requests of the runs on session tokens at time t: every session token
\* with one authorization value, and every authorization and login value
\* with one fresh session token
SessionRequests(t) ==
  {Request(ip, <<>>, ts, OpaqueAuth, <<>>) :
     ip \in IPs,
     ts \in {NoTs, MalformedTs, NullTs, ValueTs}
            \cup {ObjectTs(g, sid, sp) :
                    g \in {NoField} \cup {Num(t - a) : a \in Ages},
                    sid \in {"", "s1"}, sp \in {"", "p1", "p2"}}}
  \cup {Request(ip, <<>>, ObjectTs(Num(t - 1), "s1", "p1"), auth, login) :
          ip \in IPs, auth \in {<<>>, OpaqueAuth, TokenA, ShortToken, TokenB},
          login \in {<<>>, trueString, TrueUpper, OneString}}

\* ------------------------------------------------------------------------
\* Specifications
\* ------------------------------------------------------------------------
InitCommon ==
  /\ rateLimitMap = EmptyMap
  /\ auditWrites = <<>>
  /\ sessions = <<>>
  /\ pending = <<>>
  /\ issued = NoToken
  /\ req = NoRequest
  /\ last = Response("none", 0, "", 0)
  /\ hist = [ip \in IPs |-> {}]
  /\ over = [ip \in IPs |-> FALSE]
  /\ got429 = [ip \in IPs |-> FALSE]
  /\ passed = [ip \in IPs |-> {}]
  /\ InitLogin
  /\ InitResend
  /\ InitOrder

\* the middleware over time
Init ==
  /\ InitCommon
  /\ now = 0
  /\ secret = SecretAB
  /\ track = FALSE
  /\ maxPending = MaxInFlight

Next ==
  \/ \E d \in Deltas : Tick(d)
  \/ \E ip \in IPs : AwaitExpiry(ip)
  \/ \E r \in Requests : Receive(r)
  \/ \E i \in 1..Len(pending), failed \in BOOLEAN : SaveSessionDone(i, failed)

Spec == Init /\ [][Next]_vars

\* session tokens and authorization values of every kind, at one time
InitSession ==
  /\ InitCommon
  /\ now = StartTime
  /\ secret \in {<<>>, SecretAB}
  /\ track = FALSE /\ maxPending = MaxInFlight

\* the address has sent fewer than MaxBurst requests
Quiet(ip) ==
  IF ip \in DOMAIN rateLimitMap THEN rateLimitMap[ip].count < MaxBurst
  ELSE TRUE

NextSession ==
  \/ \E r \in SessionRequests(now) : Quiet(r.ip) /\ Receive(r)
  \/ \E i \in 1..Len(pending), failed \in BOOLEAN : SaveSessionDone(i, failed)

SpecSession == InitSession /\ [][NextSession]_vars

\* the token codec: one token is issued under any secret and presented,
\* whole or cut short, to a server with any secret or none
InitCodec ==
  /\ InitCommon
  /\ now = 0
  /\ secret \in Secrets
  /\ track = FALSE /\ maxPending = MaxInFlight

\* the header values presented: the token issued and its first n characters
CutLengths ==
  {1, prefixLength + suffixLength - 1, prefixLength + suffixLength,
   prefixLength + suffixLength + 1}
Presented(token) == {token} \cup {Slice(token, 0, n) : n \in CutLengths}

NextCodec ==
  \/ \E userId \in UserIds, s \in Secrets, prefix \in Prefixes,
        suffix \in Suffixes :
       issued = NoToken /\ IssueToken(userId, s, prefix, suffix)
  \/ \E ip \in IPs, authHeader \in Presented(issued.token) :
       issued # NoToken /\ Decode(ip, authHeader, trueString)

SpecCodec == InitCodec /\ [][NextCodec]_vars

\* the whole middleware at one time, with the completions of both inserts
\* and with or without a secret: requests that fail the session token
\* validation, with and without an authorization value, and requests with a
\* fresh session token and every kind of authorization value
InitAudit ==
  /\ InitCommon
  /\ now = 0
  /\ secret \in {<<>>, SecretAB}
  /\ track = FALSE /\ maxPending = MaxInFlight

AuditRequests ==
  {Request(ip, <<>>, ts, auth, trueString) :
     ip \in IPs,
     ts \in {NoTs, MalformedTs, NullTs, ObjectTs(Num(1), "s1", ""),
             ObjectTs(Num(0 - (SESSION_LIMIT + 1)), "s1", "p1")},
     auth \in {<<>>, TokenA}}
  \cup {Request(ip, <<>>, ObjectTs(Num(1), "s1", "p1"), auth, trueString) :
          ip \in IPs, auth \in {<<>>, ShortToken, TokenA, TokenB}}

NextAudit ==
  \/ \E r \in AuditRequests : Receive(r)
  \/ \E i \in 1..Len(pending), failed \in BOOLEAN : SaveSessionDone(i, failed)
  \/ \E k \in 1..Len(auditWrites), outcome \in AuditOutcomes :
       recordBlockedIpDone(k, outcome)

SpecAudit == InitAudit /\ [][NextAudit]_vars

\* the rate limiter over time, with the request history of each address
InitRate ==
  /\ InitCommon
  /\ now = 0
  /\ secret = SecretAB
  /\ track = TRUE
  /\ maxPending = MaxInFlight

NextRate ==
  \/ \E d \in Deltas : Tick(d)
  \/ \E ip \in IPs : AwaitExpiry(ip)
  \/ \E r \in RateRequests : Receive(r)

SpecRate == InitRate /\ [][NextRate]_vars

\* interleaved handlers of one address at one time, with the request history
\* of the address: a handler suspended at the sessions insert, and the
\* requests handled meanwhile
RaceRequests ==
  {Request(ip, <<>>, NoTs, <<>>, <<>>) : ip \in IPs}
  \cup {Request(ip, <<>>, ObjectTs(Num(1), "s1", sp), TokenA, trueString) :
          ip \in IPs, sp \in {"p1", "p2"}}

NextRace ==
  \/ \E r \in RaceRequests : Receive(r)
  \/ \E i \in 1..Len(pending), failed \in BOOLEAN : SaveSessionDone(i, failed)

InitRace ==
  /\ InitCommon
  /\ now = 0
  /\ secret = SecretAB
  /\ track = TRUE
  /\ maxPending = MaxInFlight + 1

SpecRace == InitRace /\ [][NextRace]_vars

\* logins of one user from one address, one at a time, over time
NextLogin ==
  \/ \E isPasswordCorrect \in BOOLEAN : Login(isPasswordCorrect)
  \/ LoginTick

SpecLogin == Init /\ [][NextLogin]_vars

\* resend requests for one address, interleaved at their waits, over time
NextResend ==
  \/ \E i \in ResendHandlers : ResendStart(i)
  \/ \E i \in ResendHandlers : ResendDeleted(i)
  \/ \E i \in ResendHandlers, failed \in BOOLEAN : ResendSent(i, failed)
  \/ \E i \in ResendHandlers, failed \in BOOLEAN : ResendInserted(i, failed)
  \/ ResendTick

SpecResend == Init /\ [][NextResend]_vars

\* order placements, interleaved at their waits
NextOrder ==
  \/ \E h \in PlaceHandlers, cartItems \in Carts : PlaceStart(h, cartItems)
  \/ \E h \in PlaceHandlers : PlaceOrderCreated(h)
  \/ \E h \in PlaceHandlers : PlaceItemsInserted(h)
  \/ \E h \in PlaceHandlers, k \in 1..MaxItems : StockFetched(h, k)
  \/ \E h \in PlaceHandlers, k \in 1..MaxItems : StockUpdated(h, k)
  \/ \E h \in PlaceHandlers : PlaceCartCleared(h)
  \/ \E h \in PlaceHandlers : PlaceNotified(h)

SpecOrder == Init /\ [][NextOrder]_vars

\* ------------------------------------------------------------------------
\* Rate limiter properties
\* ------------------------------------------------------------------------
\* a step in which the handler of a non-upgrade request from ip ran from
\* its start (the clock stands still, no suspended handler resumed)
Handled(ip) ==
  /\ now' = now
  /\ issued' = issued
  /\ Len(pending') >= Len(pending)
  /\ <<rateLimitMap, auditWrites, pending, req, last>>' #
       <<rateLimitMap, auditWrites, pending, req, last>>
  /\ req'.ip = ip
  /\ ~isSocketRequest(req')

\* C1: an address none of whose rolling 15,000 ms intervals holds more than
\* 50 non-upgrade requests is never answered 429.
C1_NoRejectionWithinLimit == \A ip \in IPs : got429[ip] => over[ip]

\* 50 requests have passed in a window that is not the first one, and no
\* rolling interval held more than 50
C1_Witness ==
  \E ip \in DOMAIN rateLimitMap :
    /\ ~over[ip] /\ ~got429[ip]
    /\ rateLimitMap[ip].count = REQUEST_LIMIT
    /\ rateLimitMap[ip].start >= TIME_WINDOW
    /\ last.kind = "missing_ts"

\* C2: the request that raises count above 50 inside the window is answered
\* 429, blockUntil becomes now + the blockDuration held before, the message
\* reports ceil(that duration / 1000) seconds, blockDuration doubles and
\* exactly one blocked_ips insert is issued.
C2_Violation ==
  [][\A ip \in DOMAIN rateLimitMap :
       LET record == rateLimitMap[ip]
       IN (/\ Handled(ip)
           /\ ~IsBlocked(record, now)
           /\ now - record.start < TIME_WINDOW
           /\ record.count + 1 > REQUEST_LIMIT)
          => /\ last'.status = 429
             /\ last'.kind = "limit"
             /\ last'.wait = Ceil(record.blockDuration, 1000)
             /\ rateLimitMap'[ip].blockUntil = now + record.blockDuration
             /\ rateLimitMap'[ip].blockDuration = 2 * record.blockDuration
             /\ rateLimitMap'[ip].count = record.count + 1
             /\ Len(auditWrites') = Len(auditWrites) + 1
             /\ auditWrites'[Len(auditWrites')].ip = ip
             /\ auditWrites'[Len(auditWrites')].block_end =
                  now + record.blockDuration
             /\ pending' = pending]_vars

\* the 51st request of a window has just been answered
C2_Witness ==
  /\ last.kind = "limit"
  /\ last.wait = 300
  /\ rateLimitMap[last.ip].count = REQUEST_LIMIT + 1
  /\ rateLimitMap[last.ip].blockUntil = now + BLOCK_INCREMENT
  /\ Len(auditWrites) = 1

\* the length of the k-th block issued
BlockLength(k) == auditWrites[k].block_end - auditWrites[k].block_start

\* C3: a violation after the end of a block yields a block exactly twice as
\* long as the previous block of the address.
C3_Escalation ==
  \A k \in 2..Len(auditWrites) :
    auditWrites[k].ip = auditWrites[k - 1].ip
      => BlockLength(k) = 2 * BlockLength(k - 1)

\* C4: no step lowers the blockDuration stored for an address.
C4_Monotonic ==
  [][\A ip \in DOMAIN rateLimitMap :
       rateLimitMap'[ip].blockDuration >= rateLimitMap[ip].blockDuration]_vars

\* C17: while blockUntil of an address is set and greater than now, a
\* non-upgrade request from it is answered 429 with
\* ceil((blockUntil - now) / 1000) seconds and changes neither the record
\* nor the audit writes, the session log or the suspended handlers; at
\* now = blockUntil and later the request is not answered 429.
C17_BlockedRequest ==
  [][\A ip \in DOMAIN rateLimitMap :
       LET record == rateLimitMap[ip]
       IN (Handled(ip) /\ record.blockUntil # Null)
          => /\ record.blockUntil > now =>
                  /\ last'.status = 429
                  /\ last'.kind = "blocked"
                  /\ last'.wait =
                       Ceil(record.blockUntil - now, 1000)
                  /\ UNCHANGED <<rateLimitMap, auditWrites, sessions,
                                 pending>>
             /\ record.blockUntil <= now =>
                  /\ last'.status # 429
                  /\ rateLimitMap'[ip].blockUntil = Null]_vars

\* a request with a fresh session token was answered 429 with 293 seconds,
\* 292500 ms before the end of the block
C17_Witness ==
  /\ last.kind = "blocked"
  /\ last.status = 429
  /\ req.ts.kind = "object"
  /\ rateLimitMap[last.ip].blockUntil - now = 292500
  /\ last.wait = 293
  /\ rateLimitMap[last.ip].count = REQUEST_LIMIT + 1
  /\ Len(auditWrites) = 1
  /\ pending = <<>>

\* the record of a window that starts at time t
FreshRecord(t) ==
  [count |-> 1, start |-> t, blockUntil |-> Null,
   blockDuration |-> 300000]

\* C18: a request from a known address that is not blocked, arriving
\* 15,000 ms or more after windowStart, passes the rate limiter and leaves
\* the record at count 1, windowStart now, blockUntil null and
\* blockDuration 300000; the first request at or after the end of a block
\* is such a request.
C18_WindowExpiry ==
  [][\A ip \in DOMAIN rateLimitMap :
       LET record == rateLimitMap[ip]
       IN (Handled(ip) /\ ~(record.blockUntil # Null /\ record.blockUntil > now))
          => /\ now - record.start >= 15000 =>
                  /\ last'.status # 429
                  /\ rateLimitMap'[ip] = FreshRecord(now)
                  /\ auditWrites' = auditWrites
             /\ record.blockUntil # Null =>
                  /\ now - record.start >= 15000
                  /\ rateLimitMap'[ip] = FreshRecord(now)]_vars

\* the first request at the end of a block has reset the record, whose
\* blockDuration was 600000
C18_Witness ==
  /\ Len(auditWrites) = 1
  /\ now = auditWrites[1].block_end
  /\ rateLimitMap[req.ip] = FreshRecord(now)
  /\ last.kind = "missing_ts"
  /\ last.status = 401

\* ------------------------------------------------------------------------
\* Upgrade requests
\* ------------------------------------------------------------------------
\* C10: a request whose upgrade header is "websocket" in any letter case is
\* forwarded at once and leaves the rate-limit map, the session log, the
\* suspended handlers and the audit writes as they were.
C10_UpgradeBypass ==
  [][(/\ now' = now
      /\ issued' = issued
      /\ <<req, last>>' # <<req, last>>
      /\ req'.upgrade # <<>>
      /\ toLowerCase(req'.upgrade) = websocket)
     => /\ last'.kind = "forward"
        /\ last'.upgrade
        /\ ~last'.hasUser
        /\ UNCHANGED <<rateLimitMap, sessions, auditWrites, pending>>]_vars

\* an upgrade request in mixed case, without ts and authorization, from a
\* blocked address was forwarded; the session log holds a row
C10_Witness ==
  /\ last.kind = "forward" /\ last.upgrade
  /\ req.upgrade = WebSocketMixed
  /\ req.ts = NoTs /\ req.authorization = <<>>
  /\ req.ip \in DOMAIN rateLimitMap
  /\ IsBlocked(rateLimitMap[req.ip], now)
  /\ Len(sessions) = 1

\* ------------------------------------------------------------------------
\* Session tokens
\* ------------------------------------------------------------------------
\* the handler that ran last validated a complete session token (the request
\* was no upgrade request and passed the rate limiter)
ValidatedComplete ==
  /\ req.upgrade = <<>>
  /\ req.ts.kind = "object"
  /\ ~MissingDetails(req.ts)
  /\ last.kind \notin {"none", "blocked", "limit"}

\* now - generatedAt of that token (the clock stands still in these runs)
ReqAge == now - req.ts.generatedAt.v

\* C8: a complete session token is answered 403 "expired" exactly when
\* now - generatedAt > 30000: 30001 is rejected, 30000 and 29999 pass.
C8_FreshnessBoundary ==
  ValidatedComplete =>
    /\ (last.kind = "expired") <=> (ReqAge > 30000)
    /\ last.kind = "expired" => last.status = 403
    /\ ReqAge = 30001 => last.kind = "expired"
    /\ ReqAge \in {29999, 30000} =>
         last.kind \in {"pending", "store_failed", "forward"}

\* a token of exactly 30000 ms has passed the freshness check
C8_Witness ==
  /\ ValidatedComplete
  /\ ReqAge = 30000
  /\ last.kind = "pending"
  /\ Len(pending) = 1

\* C9: every session token that passes validation has generatedAt within
\* 30,000 ms of the server time, in the past or in the future, and a
\* non-empty sessionId and sessionPoint (the clock stands still in these
\* runs, so now is the time of the validation).
C9_ValidatedWithinTolerance ==
  \A i \in 1..Len(pending) :
    LET sessionData == pending[i].ts
        age == now - sessionData.generatedAt.v
    IN /\ age <= 30000
       /\ 0 - age <= 30000
       /\ sessionData.sessionId # ""
       /\ sessionData.sessionPoint # ""

\* the handler that ran last was that of a request which is no upgrade
\* request and passed the rate limiter
PassedRateLimiter ==
  /\ req.upgrade = <<>>
  /\ last.kind \notin {"none", "blocked", "limit"}

\* C11: for a request that passed the rate limiter, an absent ts gives 401,
\* a ts that does not decode gives 400, a descriptor lacking generatedAt,
\* sessionId or sessionPoint gives 400 whatever its age, and a complete
\* descriptor older than 30000 ms gives 403.
C11_SessionOutcomes ==
  PassedRateLimiter =>
    /\ req.ts.kind = "absent" =>
         last.kind = "missing_ts" /\ last.status = 401
    /\ req.ts.kind = "malformed" =>
         last.kind = "bad_format" /\ last.status = 400
    /\ (req.ts.kind \in {"value", "object"} /\ MissingDetails(req.ts)) =>
         last.kind = "missing_details" /\ last.status = 400
    /\ (req.ts.kind = "object" /\ ~MissingDetails(req.ts)
          /\ now - req.ts.generatedAt.v > 30000) =>
         last.kind = "expired" /\ last.status = 403

\* a descriptor of 30001 ms that lacks only sessionPoint was answered 400
C11_Witness ==
  /\ PassedRateLimiter
  /\ req.ts.kind = "object"
  /\ req.ts.generatedAt = Num(now - 30001)
  /\ req.ts.sessionId # ""
  /\ req.ts.sessionPoint = ""
  /\ last.status = 400

\* a step in which the sessions insert of a suspended handler completed
InsertCompleted == Len(pending') < Len(pending)

\* a step in which a blocked_ips insert completed
AuditCompleted ==
  /\ Len(auditWrites') = Len(auditWrites)
  /\ \E k \in 1..Len(auditWrites) :
       auditWrites'[k].outcome # auditWrites[k].outcome

\* the session log holds a row with the sessionPoint of request r
Logged(r) ==
  \E k \in 1..Len(sessions) : sessions[k].session_point = r.ts.sessionPoint

\* C12: when the sessions insert fails (no row is added), also because a
\* row with the sessionPoint exists, the request is answered 500 and not
\* forwarded, whatever its authorization header; the completion of a
\* blocked_ips insert, failed or not, changes no response and no state.
C12_InsertFailures ==
  [][/\ InsertCompleted =>
          /\ (Logged(req') => sessions' = sessions)
          /\ (sessions' = sessions =>
                 /\ last'.kind = "store_failed"
                 /\ last'.status = 500
                 /\ ~last'.hasUser)
     /\ AuditCompleted =>
          UNCHANGED <<last, req, rateLimitMap, sessions, pending>>]_vars

\* a request without authorization whose sessionPoint was logged before was
\* answered 500, after the blocked_ips insert of a block had failed
C12_Witness ==
  /\ last.kind = "store_failed"
  /\ last.status = 500
  /\ req.authorization = <<>>
  /\ Len(sessions) = 1
  /\ Logged(req)
  /\ Len(auditWrites) = 1
  /\ auditWrites[1].outcome = "error"

\* C13: every validated descriptor is appended to the session log as a row
\* of its own, also when the log holds a row with its sessionPoint, unless
\* the database fails for another reason.
C13_NoDeduplication ==
  [][(InsertCompleted /\ last'.cause # "failed")
       => Len(sessions') = Len(sessions) + 1]_vars

\* C16: a handler that has ended has either forwarded its request or
\* answered it with one rejection, for every ts header value.
C16_OneTerminalState ==
  last.kind \notin {"none", "pending"} =>
    \/ last.kind = "forward" /\ last.status = 200
    \/ last.kind # "forward" /\ last.status \in {400, 401, 403, 429, 500}

\* ------------------------------------------------------------------------
\* Authorization stage
\* ------------------------------------------------------------------------
\* the handler that ran last passed the rate limiter, the session token
\* validation and the sessions insert, and read the authorization header
ReachedAuthorization ==
  /\ last.hasSession
  /\ last.kind # "pending"

\* the decoded middle segment of a token, and the halves of a secret
Middle(authHeader) ==
  Base64Decode(Slice(authHeader, prefixLength, Len(authHeader) - suffixLength))
FirstHalf(s) == Slice(s, 0, Floor2(Len(s)))
SecondHalf(s) == Slice(s, Floor2(Len(s)), Len(s))

\* the request of that handler requires decode
RequiresDecode ==
  /\ ReachedAuthorization
  /\ req.login = trueString
  /\ req.authorization # <<>>

\* C14 as stated: without a configured secret every request that requires
\* decode is answered 500, whatever the length of its authorization value.
C14_MissingSecretAlways500 ==
  (RequiresDecode /\ secret = <<>>) =>
    last.kind = "secret_missing" /\ last.status = 500

\* C14 as amended: without a configured secret a request that requires
\* decode is answered 500 when its authorization value has 37 characters or
\* more, and 401 "invalid length" when it has 36 or fewer.
C14_MissingSecret ==
  (RequiresDecode /\ secret = <<>>) =>
    /\ Len(req.authorization) >= 37 =>
         last.kind = "secret_missing" /\ last.status = 500 /\ ~last.hasUser
    /\ Len(req.authorization) <= 36 =>
         last.kind = "bad_length" /\ last.status = 401

\* a token that the secret "ab" accepts was answered 500 by a server
\* without a secret
C14_Witness ==
  /\ RequiresDecode
  /\ secret = <<>>
  /\ req.authorization = TokenA
  /\ last.kind = "secret_missing"
  /\ last.status = 500

\* C15: a request with a non-empty authorization value whose login header
\* is not exactly "true" is forwarded without an identity, whatever the
\* value and the secret; a forwarded request carries an identity only if
\* login is exactly "true", the value is longer than 36 characters, the
\* secret is configured and the decoded middle has the secret's halves at
\* its ends.
C15_LoginFlag ==
  ReachedAuthorization =>
    /\ (req.authorization # <<>> /\ req.login # trueString) =>
         last.kind = "forward" /\ ~last.hasUser
    /\ (last.kind = "forward" /\ last.hasUser) =>
         /\ req.login = trueString
         /\ Len(req.authorization) > 36
         /\ secret # <<>>
         /\ StructureOk(Middle(req.authorization), FirstHalf(secret),
                        SecondHalf(secret))

\* a value of 36 characters with login "TRUE" was forwarded without an
\* identity by a server without a secret
C15_Witness ==
  /\ ReachedAuthorization
  /\ req.login = TrueUpper
  /\ req.authorization = ShortToken
  /\ secret = <<>>
  /\ last.kind = "forward"
  /\ ~last.hasUser

\* ------------------------------------------------------------------------
\* Order of the checks
\* ------------------------------------------------------------------------
\* the place of a response in the order of the checks: 1 rate limiter,
\* 2 ts presence, 3 ts decoding, 4 completeness, 5 freshness, 6 sessions
\* insert, 7 authorization presence, 8 token length, 9 secret configured,
\* 10 token structure, 11 forwarded
Rank(kind) ==
  CASE kind \in {"blocked", "limit"} -> 1
    [] kind = "missing_ts" -> 2
    [] kind = "bad_format" -> 3
    [] kind = "missing_details" -> 4
    [] kind = "expired" -> 5
    [] kind = "store_failed" -> 6
    [] kind = "missing_auth" -> 7
    [] kind = "bad_length" -> 8
    [] kind = "secret_missing" -> 9
    [] kind = "bad_structure" -> 10
    [] kind = "forward" -> 11

\* check j, one of those that depend on the request alone, fails on r
CheckFails(j, r) ==
  CASE j = 2 -> r.ts.kind = "absent"
    [] j = 3 -> r.ts.kind = "malformed"
    [] j = 4 -> r.ts.kind \in {"value", "object"} /\ MissingDetails(r.ts)
    [] j = 5 -> now - r.ts.generatedAt.v > 30000
    [] j = 7 -> r.authorization = <<>>
    [] j = 8 -> r.login = trueString /\ Len(r.authorization) <= 36
    [] j = 9 -> r.login = trueString /\ secret = <<>>
    [] j = 10 -> /\ r.login = trueString
                 /\ ~StructureOk(Middle(r.authorization), FirstHalf(secret),
                                 SecondHalf(secret))

\* the rate limiter rejects a request from ip: the address is blocked, or
\* the request is the 51st of its window
RateLimited(ip) ==
  IF ip \in DOMAIN rateLimitMap
    THEN LET record == rateLimitMap[ip]
         IN \/ record.blockUntil # Null /\ record.blockUntil > now
            \/ now - record.start < 15000 /\ record.count + 1 > 50
    ELSE FALSE

\* a step in which a handler answered or forwarded a non-upgrade request
Answered ==
  /\ <<req, last>>' # <<req, last>>
  /\ req'.upgrade = <<>>
  /\ last'.kind \notin {"pending", "thrown"}

\* C19: the response is that of the first check that fails, in the order
\* rate limiter, ts presence, ts decoding, completeness, freshness,
\* sessions insert, authorization presence, token length, secret
\* configured, token structure: no earlier check fails on the request, the
\* check answered for does, a request the rate limiter rejects gets 429
\* whatever its headers, and the authorization header is judged only after
\* the row is in the session log.
C19_CheckOrder ==
  [][Answered =>
       LET k == Rank(last'.kind)
       IN /\ \A j \in (2..(k - 1)) \ {6} : ~CheckFails(j, req')
          /\ k \in ((2..10) \ {6}) => CheckFails(k, req')
          /\ (~InsertCompleted /\ RateLimited(req'.ip)) => k = 1
          /\ k = 1 => ~InsertCompleted /\ RateLimited(req'.ip)
          /\ k \in 2..5 => ~InsertCompleted
          /\ k >= 6 => InsertCompleted
          /\ k >= 7 => \E n \in 1..Len(sessions') :
                          sessions'[n].session_point =
                            req'.ts.sessionPoint]_vars

\* a request with a fresh session token and a token the secret accepts was
\* answered 429 because its address is blocked
C19_Witness ==
  /\ last.kind = "blocked"
  /\ last.status = 429
  /\ req.ts = ObjectTs(Num(1), "s1", "p1")
  /\ req.authorization = TokenA
  /\ secret = SecretAB
  /\ sessions = <<>>

\* ------------------------------------------------------------------------
\* Public auth token
\* ------------------------------------------------------------------------
\* the token issued was presented whole, with login "true", and answered
PresentedIssued ==
  /\ issued # NoToken
  /\ last.kind # "none"
  /\ req.login = trueString
  /\ req.authorization = issued.token

\* C5: the token built for userId is accepted under the same secret and the
\* identity attached is userId, for secrets of even and of odd length.
C5_RoundTrip ==
  (PresentedIssued /\ issued.secret = secret) =>
    /\ last.kind = "forward"
    /\ last.hasUser
    /\ last.user = issued.userId

\* a token under a secret of length 1 (empty first half) was accepted
C5_Witness ==
  /\ PresentedIssued
  /\ issued.secret = secret
  /\ Len(secret) = 1
  /\ last.kind = "forward"
  /\ last.user = issued.userId

\* C6: a token encoded with another secret is answered 403 "invalid
\* structure" and no identity is attached.
C6_WrongSecretRejected ==
  (PresentedIssued /\ secret # <<>> /\ issued.secret # secret) =>
    /\ last.kind = "bad_structure"
    /\ last.status = 403
    /\ ~last.hasUser

\* C7: with login "true", an authorization value of 36 characters or fewer
\* is answered 401 "invalid length", with or without a configured secret,
\* and a value of 37 characters or more passes the length check.
C7_LengthCheck ==
  (last.kind # "none" /\ req.login = trueString /\ req.authorization # <<>>) =>
    /\ Len(req.authorization) <= 36 =>
         last.kind = "bad_length" /\ last.status = 401
    /\ Len(req.authorization) >= 37 => last.kind # "bad_length"

\* a value of exactly 36 characters was answered 401 by a server without
\* a secret
C7_Witness ==
  /\ req.login = trueString
  /\ Len(req.authorization) = 36
  /\ secret = <<>>
  /\ last.kind = "bad_length"
  /\ last.status = 401

\* C20: whenever decode accepts a token and attaches the identity u, the
\* decoded middle segment is secretFirst + u + secretSecond.
C20_DecodeSound ==
  (last.kind = "forward" /\ last.hasUser) =>
    Middle(req.authorization) =
      FirstHalf(secret) \o last.user \o SecondHalf(secret)

\* ------------------------------------------------------------------------
\* Block audit write
\* ------------------------------------------------------------------------
\* C21: the request that triggers a block is answered 429 and the record is
\* blocked and its duration doubled in the step that issues the blocked_ips
\* insert, before the insert has completed; the completion of the insert,
\* stored, failed or thrown, changes neither the response nor the record,
\* and so does its absence.
C21_FireAndForget ==
  [][/\ Len(auditWrites') = Len(auditWrites) + 1 =>
          LET w == auditWrites'[Len(auditWrites')]
              before == rateLimitMap[w.ip]
              after == rateLimitMap'[w.ip]
          IN /\ w.outcome = "issued"
             /\ last'.kind = "limit"
             /\ last'.status = 429
             /\ last'.wait = Ceil(before.blockDuration, 1000)
             /\ after.blockUntil = now + before.blockDuration
             /\ after.blockDuration = 2 * before.blockDuration
     /\ AuditCompleted =>
          /\ last' = last
          /\ rateLimitMap' = rateLimitMap]_vars

\* the 429 of a block stands, and the record is blocked with the duration
\* doubled, after the blocked_ips insert threw
C21_Witness ==
  /\ Len(auditWrites) = 1
  /\ auditWrites[1].outcome = "thrown"
  /\ last.kind = "limit"
  /\ last.status = 429
  /\ last.wait = 300
  /\ rateLimitMap[last.ip].blockUntil = now + 300000
  /\ rateLimitMap[last.ip].blockDuration = 600000

\* ------------------------------------------------------------------------
\* Interleaved requests of one address
\* ------------------------------------------------------------------------
\* a handler of ip is suspended at the sessions insert and another request
\* of ip has been handled meanwhile
Interleaved(ip) ==
  /\ ~over[ip]
  /\ \E i \in 1..Len(pending) : pending[i].ip = ip
  /\ req.ip = ip
  /\ last.kind # "pending"
  /\ Total(hist[ip]) >= 2

\* C22 as stated: when requests of one address interleave, count ends up
\* smaller than the number of requests counted in the window.
C22_LostUpdate ==
  \A ip \in IPs :
    Interleaved(ip) => rateLimitMap[ip].count < Total(hist[ip])

\* C22 as amended: in every interleaving the scheduling allows, count is the
\* number of requests of the address counted in the window.
C22_NoLostUpdate ==
  \A ip \in DOMAIN rateLimitMap :
    ~over[ip] => rateLimitMap[ip].count = Total(hist[ip])

\* a request was handled while a handler of the same address was suspended,
\* and both are counted
C22_Witness ==
  \E ip \in DOMAIN rateLimitMap :
    /\ Interleaved(ip)
    /\ last.kind = "missing_ts"
    /\ Total(hist[ip]) = 2
    /\ rateLimitMap[ip].count = 2

\* ------------------------------------------------------------------------
\* Login lockout
\* ------------------------------------------------------------------------
\* a step in which a login was handled
LoginHandled == now' = now /\ loginVars' # loginVars

\* C23: once 5 or more logins in a row were answered 401 (wrong password,
\* no login answered 200 between them), every login within 30 minutes of
\* the last of them is answered 403 and leaves the failure record as it is,
\* right password or not; with fewer than 5 in a row no login is answered
\* 403; a login answered 200 leaves no failure record.
C23_Lockout ==
  [][LoginHandled =>
       /\ (streak >= 5 /\ now - streakAt < 1800000) =>
            /\ loginResponse' = 403
            /\ failedLoginAttempts' = failedLoginAttempts
       /\ streak < 5 => loginResponse' # 403
       /\ loginResponse' = 200 =>
            /\ loginCorrect'
            /\ ~failedLoginAttempts'.has
            /\ streak' = 0]_vars

\* a login with the right password was answered 403, 15 minutes after the
\* fifth wrong password in a row
C23_Witness ==
  /\ streak = 5
  /\ now - streakAt = 900000
  /\ loginCorrect
  /\ loginResponse = 403
  /\ failedLoginAttempts.failed_attempts = 5

\* ------------------------------------------------------------------------
\* OTP resend limit
\* ------------------------------------------------------------------------
\* the responses 200 within the hour that ends with the k-th of them
ServedWithinHour(k) ==
  {j \in 1..k : served[k] - served[j] < 3600000}

\* C24: at most 3 resend requests for the address are answered 200 within
\* any one-hour interval.
C24_ResendLimit ==
  \A k \in 1..Len(served) : Cardinality(ServedWithinHour(k)) <= 3


\* the rows of the session log that carry the sessionPoint of request r
RowsOf(rows, r) ==
  {k \in 1..Len(rows) : rows[k].session_point = r.ts.sessionPoint}

\* C25: a session descriptor is single-use under every interleaving of the
\* requests that carry one sessionPoint: a handler whose sessions insert
\* completes while a row with its sessionPoint exists is answered 500 and
\* adds no row, and a handler that is forwarded has added the only row
\* with its sessionPoint, so at most one of the requests is forwarded
C25_SingleUse ==
  [][InsertCompleted =>
       /\ (Logged(req') =>
             /\ last'.kind = "store_failed"
             /\ last'.status = 500
             /\ sessions' = sessions)
       /\ (last'.kind = "forward" =>
             /\ ~Logged(req')
             /\ Cardinality(RowsOf(sessions', req')) = 1)]_vars

\* two handlers with one sessionPoint were suspended at the insert at
\* once, and the first to complete was forwarded
C25_Witness ==
  /\ last.kind = "forward"
  /\ last.hasSession
  /\ req.ts.sessionPoint = "p1"
  /\ Len(pending) = 1
  /\ pending[1].ts.sessionPoint = "p1"
  /\ Cardinality(RowsOf(sessions, req)) = 1


\* C26: a non-upgrade request that no active block rejects adds 1 to the
\* count of its address (or starts a window at 1), whatever its ts and
\* authorization headers are and whatever response it gets; the request
\* that takes the count past 50 is answered 429 and sets the block, also
\* when none of the requests counted before it was forwarded.
C26_CountsRejected ==
  [][\A ip \in IPs :
       LET has == ip \in DOMAIN rateLimitMap
           record == IF has THEN rateLimitMap[ip] ELSE NoRecord
           active == /\ has
                     /\ record.blockUntil # Null
                     /\ record.blockUntil > now
           expected == IF has /\ now - record.start < TIME_WINDOW
                         THEN record.count + 1
                       ELSE 1
       IN (Handled(ip) /\ ~active) =>
            /\ ip \in DOMAIN rateLimitMap'
            /\ rateLimitMap'[ip].count = expected
            /\ (expected > REQUEST_LIMIT =>
                  /\ last'.status = 429
                  /\ rateLimitMap'[ip].blockUntil # Null)
            /\ (expected <= REQUEST_LIMIT => last'.status # 429)]_vars

\* the 51st request of an address was answered 429 and set the block
\* although no request was ever forwarded: the session log is empty and no
\* handler is suspended, so the 50 requests counted before it were rejected
\* for their ts header, their sessions insert or their authorization
C26_Witness ==
  /\ last.kind = "limit"
  /\ last.status = 429
  /\ rateLimitMap[last.ip].count = REQUEST_LIMIT + 1
  /\ rateLimitMap[last.ip].blockUntil # Null
  /\ sessions = <<>>
  /\ pending = <<>>
  /\ \A ip \in IPs \ {last.ip} : ip \notin DOMAIN rateLimitMap


\* C27: a request answered by the rate limiter or by a session-validation
\* check leaves the session log as it was and issues no insert; a request
\* answered at the authorization stage (401 no authorization, 401 token
\* length, 500 no secret, 403 token structure) has added the one row with
\* its sessionPoint; and a request whose sessionPoint is in the log is
\* answered at the sessions insert at the latest, so the ts header of a
\* request rejected at the authorization stage cannot be used again.
C27_RowsOfRejected ==
  [][Answered =>
       LET k == Rank(last'.kind)
       IN /\ k \in 1..5 => (sessions' = sessions /\ pending' = pending)
          /\ k \in 7..10 =>
               /\ sessions' = Append(sessions, SessionRow(req'.ts))
               /\ Cardinality(RowsOf(sessions', req')) = 1
               /\ last'.status =
                    CASE k = 7 -> 401 [] k = 8 -> 401
                      [] k = 9 -> 500 [] k = 10 -> 403
          /\ (req'.ts.kind = "object" /\ Logged(req')) => k <= 6]_vars

\* no secret is configured, so the one row of the session log is that of
\* a request rejected at the authorization stage; the ts header was sent
\* again and the request was answered 500 at the sessions insert
C27_Witness ==
  /\ secret = <<>>
  /\ Len(sessions) = 1
  /\ last.kind = "store_failed"
  /\ last.cause = "unique"
  /\ last.status = 500
  /\ req.authorization = TokenA
  /\ Logged(req)


\* the requests of h that passed at windowStart or later
SinceStart(h, windowStart) == {e \in h : e[1] >= windowStart}

\* C28: for an address, at most 50 requests pass the rate limiter between
\* a windowStart and the next change of windowStart, and at most 100 pass
\* within any interval of 15,000 ms.
C28_AdmissionBound ==
  \A ip \in IPs :
    /\ Total(passed[ip]) <= 2 * REQUEST_LIMIT
    /\ ip \in DOMAIN rateLimitMap =>
         Total(SinceStart(passed[ip], rateLimitMap[ip].start))
           <= REQUEST_LIMIT

\* 100 requests of an address passed within 15,000 ms: the 50 of one
\* window, and the 50 of the next at the time it started
C28_Witness ==
  \E ip \in DOMAIN rateLimitMap :
    /\ Total(passed[ip]) = 2 * REQUEST_LIMIT
    /\ Total(SinceStart(passed[ip], rateLimitMap[ip].start)) = REQUEST_LIMIT
    /\ rateLimitMap[ip].start = now
    /\ rateLimitMap[ip].count = REQUEST_LIMIT
    /\ \A e \in passed[ip] : e[1] >= now - TIME_WINDOW


\* ------------------------------------------------------------------------
\* Order placement properties
\* ------------------------------------------------------------------------
\* the quantity of product p in the items of one order
RECURSIVE QuantityOf(_, _)
QuantityOf(items, p) ==
  IF items = <<>> THEN 0
  ELSE (IF Head(items).product_id = p THEN Head(items).quantity ELSE 0)
       + QuantityOf(Tail(items), p)

\* the quantity of product p in the orders of handlers 1..n answered 201
RECURSIVE Sold(_, _)
Sold(n, p) ==
  IF n = 0 THEN 0
  ELSE (IF place[n].status = 201 THEN QuantityOf(place[n].items, p) ELSE 0)
       + Sold(n - 1, p)

\* C29: under every interleaving of order placements the stock of a
\* product is never negative, and the quantity of it in the orders placed
\* with success has been taken off its stock, so it never exceeds the
\* stock that was available.
C29_StockAccounting ==
  \A p \in Products :
    /\ stock_quantity[p] >= 0
    /\ Sold(MaxPlace, p) <= InitialStock - stock_quantity[p]

\* C30: when placing an order has failed with 500 for a stock that is too
\* low, the stored state is that before the request: no row of the order
\* in orders or orderitems, no stock lowered for one of its items, and
\* its cart rows in place.
C30_AllOrNothing ==
  \A h \in PlaceHandlers :
    place[h].status = 500 =>
      /\ h \notin orders
      /\ h \notin orderitems
      /\ \A k \in 1..Len(place[h].ipc) : place[h].ipc[k] # "done"
      /\ h \in cart

====
